---- MODULE Spec2Model ----
(***************************************************************************)
(* Model of src/src/Components/ExcelGrid.tsx: the A1 reference codec, the  *)
(* formula evaluator, the cell store with its recalculation loop, and the  *)
(* viewport window.                                                        *)
(*                                                                         *)
(* Text is a sequence of one-character strings, so that formatting and     *)
(* parsing are computed character by character as the code does.          *)
(***************************************************************************)
EXTENDS Integers, Sequences, FiniteSets

\* ------------------------------------------------------------------------
\* Program constants (ExcelGrid.tsx:22-27)
\* ------------------------------------------------------------------------
CELL_WIDTH == 100
CELL_HEIGHT == 30
TOTAL_ROWS == 10000
TOTAL_COLS == 10000

\* ------------------------------------------------------------------------
\* Bounds of the model
\* ------------------------------------------------------------------------
\* passes of the recalculation loop the model follows within one updateCell
MaxPasses == 5
\* columns A .. of row 1 that the edits of the model write to
NumEditCols == 2
\* largest row index handleCellClick selects in SpecCodec
MaxRow == 1
\* handleCellClick selects the columns 0 .. MaxCol (labels of one, two and
\* three letters) and the last column of the sheet
MaxCol == 705
\* viewport heights are 1 .. MaxViewCells cells (and two further sizes)
MaxViewCells == 3
\* parseReference is given the labels of the columns 0 .. MaxRefCol followed
\* by the row numbers 0 .. MaxRefRow (and texts that are no reference)
MaxRefCol == 27
MaxRefRow == 10

\* ------------------------------------------------------------------------
\* Characters
\* ------------------------------------------------------------------------
UpperLetters ==
  << "A","B","C","D","E","F","G","H","I","J","K","L","M",
     "N","O","P","Q","R","S","T","U","V","W","X","Y","Z" >>

DigitChars == << "0","1","2","3","4","5","6","7","8","9" >>

LowerLetters ==
  { "a","b","c","d","e","f","g","h","i","j","k","l","m",
    "n","o","p","q","r","s","t","u","v","w","x","y","z" }

UpperSet == { UpperLetters[i] : i \in 1..26 }
DigitSet == { DigitChars[i] : i \in 1..10 }

\* [A-Z]
IsUpper(c) == c \in UpperSet

\* \d
IsDigit(c) == c \in DigitSet

\* charCodeAt(i) - 64 of an upper-case letter
LetterCode(c) == CHOOSE i \in 1..26 : UpperLetters[i] = c

\* numeric value of a decimal digit
DigitVal(c) == (CHOOSE i \in 1..10 : DigitChars[i] = c) - 1

\* length of the longest prefix of cs[i..] whose characters satisfy the class
RECURSIVE UpperRun(_, _)
UpperRun(cs, i) ==
  IF i <= Len(cs) /\ IsUpper(cs[i]) THEN 1 + UpperRun(cs, i + 1) ELSE 0

RECURSIVE DigitRun(_, _)
DigitRun(cs, i) ==
  IF i <= Len(cs) /\ IsDigit(cs[i]) THEN 1 + DigitRun(cs, i + 1) ELSE 0

\* parseInt of a run of decimal digits cs[i .. i+n-1]
RECURSIVE DigitsValue(_, _, _, _)
DigitsValue(cs, i, n, acc) ==
  IF n = 0 THEN acc
  ELSE DigitsValue(cs, i + 1, n - 1, acc * 10 + DigitVal(cs[i]))

\* decimal digits of a non-negative integer
RECURSIVE NatToChars(_)
NatToChars(n) ==
  IF n < 10 THEN << DigitChars[n + 1] >>
  ELSE NatToChars(n \div 10) \o << DigitChars[(n % 10) + 1] >>

\* ------------------------------------------------------------------------
\* Reference codec
\* ------------------------------------------------------------------------
None == [none |-> TRUE]

\* getColumnLabel as plain base 26: the "- 1" of line 33 left out
RECURSIVE ColumnLabelLoop_Plain(_, _)
ColumnLabelLoop_Plain(col, label) ==
  IF col < 0 THEN label
  ELSE IF col < 26 THEN << UpperLetters[col + 1] >> \o label
  ELSE ColumnLabelLoop_Plain(col \div 26,
                             << UpperLetters[(col % 26) + 1] >> \o label)

\* the while loop of getColumnLabel
RECURSIVE ColumnLabelLoop(_, _)
ColumnLabelLoop(col, label) ==
  IF col >= 0
  THEN ColumnLabelLoop((col \div 26) - 1,
                       << UpperLetters[(col % 26) + 1] >> \o label)
  ELSE label

getColumnLabel(col) == ColumnLabelLoop(col, << >>)

\* the for loop of parseReference over colStr = ref[1 .. n]
RECURSIVE ColumnLoop(_, _, _, _)
ColumnLoop(ref, i, n, col) ==
  IF i > n THEN col
  ELSE ColumnLoop(ref, i + 1, n, col * 26 + LetterCode(ref[i]))

parseReference(ref) ==
  LET nl == UpperRun(ref, 1)
      nd == DigitRun(ref, nl + 1)
  IN  IF nl >= 1 /\ nd >= 1 /\ nl + nd = Len(ref)
      THEN [row |-> DigitsValue(ref, nl + 1, nd, 0) - 1,
            col |-> ColumnLoop(ref, 1, nl, 0) - 1]
      ELSE None

\* ------------------------------------------------------------------------
\* JavaScript values (number | string | undefined)
\* ------------------------------------------------------------------------
\* A finite number is an integer here; the store's inputs produce no
\* fraction (a quotient that is not an integer is reported as Unmodelled).
Num(n) == [kind |-> "num", n |-> n, s |-> << >>]
\* Infinity (sign 1) and -Infinity (sign -1)
Inf(sign) == [kind |-> "inf", n |-> sign, s |-> << >>]
NaN == [kind |-> "nan", n |-> 0, s |-> << >>]
Str(t) == [kind |-> "str", n |-> 0, s |-> t]
Undefined == [kind |-> "undef", n |-> 0, s |-> << >>]
\* an expression of JavaScript outside the arithmetic modelled below
Unmodelled == [kind |-> "unmodelled", n |-> 0, s |-> << >>]

ErrorMarker == Str(<< "#","E","R","R","O","R" >>)

InfinityChars == << "I","n","f","i","n","i","t","y" >>
NaNChars == << "N","a","N" >>

Sgn(n) == IF n > 0 THEN 1 ELSE IF n < 0 THEN -1 ELSE 0

\* Number.prototype.toString / String.prototype.toString
toString(v) ==
  CASE v.kind = "num" ->
         IF v.n < 0 THEN << "-" >> \o NatToChars(-v.n) ELSE NatToChars(v.n)
    [] v.kind = "inf" ->
         IF v.n < 0 THEN << "-" >> \o InfinityChars ELSE InfinityChars
    [] v.kind = "nan" -> NaNChars
    [] OTHER -> v.s

\* does text cs carry the characters of word at position i
HasPrefixAt(cs, i, word) ==
  /\ i + Len(word) - 1 <= Len(cs)
  /\ \A j \in 1..Len(word) : cs[i + j - 1] = word[j]

\* parseFloat: an optional sign, then Infinity or a run of digits
\* (the texts of the model carry no white space, "." or exponent)
parseFloat(cs) ==
  LET neg == Len(cs) >= 1 /\ cs[1] = "-"
      i == IF Len(cs) >= 1 /\ cs[1] \in {"-", "+"} THEN 2 ELSE 1
      nd == DigitRun(cs, i)
  IN  IF HasPrefixAt(cs, i, InfinityChars) THEN Inf(IF neg THEN -1 ELSE 1)
      ELSE IF nd = 0 THEN NaN
      ELSE Num((IF neg THEN -1 ELSE 1) * DigitsValue(cs, i, nd, 0))

\* the operators of IEEE arithmetic on integers, the infinities and NaN
\* (the sign of a zero is not kept)
JSNeg(a) ==
  CASE a.kind = "num" -> Num(-a.n)
    [] a.kind = "inf" -> Inf(-a.n)
    [] OTHER -> a

JSAdd(a, b) ==
  CASE a.kind = "unmodelled" \/ b.kind = "unmodelled" -> Unmodelled
    [] a.kind = "nan" \/ b.kind = "nan" -> NaN
    [] a.kind = "inf" /\ b.kind = "inf" -> IF a.n = b.n THEN a ELSE NaN
    [] a.kind = "inf" -> a
    [] b.kind = "inf" -> b
    [] OTHER -> Num(a.n + b.n)

JSSub(a, b) == JSAdd(a, JSNeg(b))

JSMul(a, b) ==
  CASE a.kind = "unmodelled" \/ b.kind = "unmodelled" -> Unmodelled
    [] a.kind = "nan" \/ b.kind = "nan" -> NaN
    [] a.kind = "inf" \/ b.kind = "inf" ->
         IF Sgn(a.n) * Sgn(b.n) = 0 THEN NaN ELSE Inf(Sgn(a.n) * Sgn(b.n))
    [] OTHER -> Num(a.n * b.n)

JSDiv(a, b) ==
  CASE a.kind = "unmodelled" \/ b.kind = "unmodelled" -> Unmodelled
    [] a.kind = "nan" \/ b.kind = "nan" -> NaN
    [] a.kind = "inf" /\ b.kind = "inf" -> NaN
    [] a.kind = "inf" -> Inf(IF b.n < 0 THEN -a.n ELSE a.n)
    [] b.kind = "inf" -> Num(0)
    [] b.n = 0 -> IF a.n = 0 THEN NaN ELSE Inf(Sgn(a.n))
    [] a.n % (Sgn(b.n) * b.n) = 0 -> Num(Sgn(a.n) * Sgn(b.n) * ((Sgn(a.n) * a.n) \div (Sgn(b.n) * b.n)))
    [] OTHER -> Unmodelled

\* computed !== prevComputed
StrictNotEqual(a, b) == a.kind = "nan" \/ b.kind = "nan" \/ a # b

\* ------------------------------------------------------------------------
\* Function(`"use strict"; return (${processedExpression})`)()
\* restricted to arithmetic: numeric literals, Infinity, NaN, + - * / ( )
\* ------------------------------------------------------------------------
Tok(t, v, s) == [t |-> t, v |-> v, s |-> s]

IsIdentStart(c) == IsUpper(c) \/ c \in LowerLetters
IsIdentPart(c) == IsIdentStart(c) \/ IsDigit(c)

RECURSIVE IdentRun(_, _)
IdentRun(cs, i) ==
  IF i <= Len(cs) /\ IsIdentPart(cs[i]) THEN 1 + IdentRun(cs, i + 1) ELSE 0

\* the lexer, by longest match. "bad" is a token no script has (a SyntaxError):
\* "#" outside a class, a number with a leading zero in strict mode, a letter
\* right after a number, and the comment openers "//" and "/*", which swallow
\* the closing parenthesis. "**" is lexed but not evaluated ("unmodelled").
RECURSIVE Tokenize(_, _)
Tokenize(cs, i) ==
  IF i > Len(cs) THEN << >>
  ELSE LET c == cs[i]
           two == IF i < Len(cs) THEN << c, cs[i + 1] >> ELSE << c >>
       IN  IF IsDigit(c) THEN
             LET n == DigitRun(cs, i)
             IN  IF (n > 1 /\ c = "0")
                    \/ (i + n <= Len(cs) /\ IsIdentStart(cs[i + n]))
                 THEN << Tok("bad", 0, << >>) >>
                 ELSE << Tok("num", DigitsValue(cs, i, n, 0), << >>) >>
                      \o Tokenize(cs, i + n)
           ELSE IF IsIdentStart(c) THEN
             LET n == IdentRun(cs, i)
             IN  << Tok("id", 0, SubSeq(cs, i, i + n - 1)) >>
                 \o Tokenize(cs, i + n)
           ELSE IF two \in { << "+", "+" >>, << "-", "-" >> } THEN
             << Tok("incdec", 0, two) >> \o Tokenize(cs, i + 2)
           ELSE IF two \in { << "/", "/" >>, << "/", "*" >> } THEN
             << Tok("bad", 0, two) >>
           ELSE IF two = << "*", "*" >> THEN
             << Tok("unmodelled", 0, two) >> \o Tokenize(cs, i + 2)
           ELSE IF c \in { "+", "-", "*", "/", "(", ")" } THEN
             << Tok(c, 0, << c >>) >> \o Tokenize(cs, i + 1)
           ELSE << Tok("bad", 0, << c >>) >>

HasTok(ts, kind) == \E i \in 1..Len(ts) : ts[i].t = kind

\* the result of parsing and evaluating from token i: ok = FALSE is a throw
Res(ok, v, i) == [ok |-> ok, v |-> v, i |-> i]
Throw == Res(FALSE, Undefined, 0)

TokIs(ts, i, t) == i <= Len(ts) /\ ts[i].t = t

RECURSIVE ParseAdditive(_, _)
RECURSIVE ParseAdditiveRest(_, _)
RECURSIVE ParseMultiplicative(_, _)
RECURSIVE ParseMultiplicativeRest(_, _)
RECURSIVE ParseUnary(_, _)
RECURSIVE ParsePrimary(_, _)

\* a literal, Infinity, NaN (any other identifier is a ReferenceError), or a
\* parenthesised expression
ParsePrimary(ts, i) ==
  IF TokIs(ts, i, "num") THEN Res(TRUE, Num(ts[i].v), i + 1)
  ELSE IF TokIs(ts, i, "id") THEN
    IF ts[i].s = InfinityChars THEN Res(TRUE, Inf(1), i + 1)
    ELSE IF ts[i].s = NaNChars THEN Res(TRUE, NaN, i + 1)
    ELSE Throw
  ELSE IF TokIs(ts, i, "(") THEN
    LET r == ParseAdditive(ts, i + 1)
    IN  IF r.ok /\ TokIs(ts, r.i, ")") THEN Res(TRUE, r.v, r.i + 1) ELSE Throw
  ELSE Throw

ParseUnary(ts, i) ==
  IF TokIs(ts, i, "-") THEN
    LET r == ParseUnary(ts, i + 1)
    IN  IF r.ok THEN Res(TRUE, JSNeg(r.v), r.i) ELSE Throw
  ELSE IF TokIs(ts, i, "+") THEN ParseUnary(ts, i + 1)
  ELSE ParsePrimary(ts, i)

\* left-associative: acc is the result so far, [ok, v, i]
ParseMultiplicativeRest(ts, acc) ==
  IF ~acc.ok THEN Throw
  ELSE IF TokIs(ts, acc.i, "*") \/ TokIs(ts, acc.i, "/") THEN
    LET r == ParseUnary(ts, acc.i + 1)
    IN  IF ~r.ok THEN Throw
        ELSE ParseMultiplicativeRest(ts,
               Res(TRUE,
                   IF ts[acc.i].t = "*" THEN JSMul(acc.v, r.v)
                                        ELSE JSDiv(acc.v, r.v),
                   r.i))
  ELSE acc

ParseMultiplicative(ts, i) == ParseMultiplicativeRest(ts, ParseUnary(ts, i))

ParseAdditiveRest(ts, acc) ==
  IF ~acc.ok THEN Throw
  ELSE IF TokIs(ts, acc.i, "+") \/ TokIs(ts, acc.i, "-") THEN
    LET r == ParseMultiplicative(ts, acc.i + 1)
    IN  IF ~r.ok THEN Throw
        ELSE ParseAdditiveRest(ts,
               Res(TRUE,
                   IF ts[acc.i].t = "+" THEN JSAdd(acc.v, r.v)
                                        ELSE JSSub(acc.v, r.v),
                   r.i))
  ELSE acc

ParseAdditive(ts, i) == ParseAdditiveRest(ts, ParseMultiplicative(ts, i))

\* compile and call the generated function. "++" and "--" always throw here:
\* their operand is a literal or a parenthesis (SyntaxError) or the read-only
\* Infinity or NaN (TypeError in strict mode).
JSEval(cs) ==
  LET ts == Tokenize(cs, 1)
  IN  IF HasTok(ts, "bad") \/ HasTok(ts, "incdec") THEN Throw
      ELSE IF HasTok(ts, "unmodelled") THEN Res(TRUE, Unmodelled, 0)
      ELSE LET r == ParseAdditive(ts, 1)
           IN  IF r.ok /\ r.i = Len(ts) + 1 THEN r ELSE Throw

\* ------------------------------------------------------------------------
\* The cell store: a Map<string, CellData> in insertion order
\* ------------------------------------------------------------------------
\* the key `${row}-${col}`; a pair names the same cell as the string does
CellKey(row, col) == << row, col >>

\* interface CellData
CellData(value, formula, computed) ==
  [value |-> value, formula |-> formula, computed |-> computed]

MapHas(m, key) == \E i \in 1..Len(m) : m[i].key = key

\* Map.prototype.get, None for a missing key
MapGet(m, key) ==
  IF MapHas(m, key)
  THEN m[CHOOSE i \in 1..Len(m) : m[i].key = key].data
  ELSE None

\* Map.prototype.set: a present key keeps its place, a new key goes last
MapSet(m, key, data) ==
  IF MapHas(m, key)
  THEN [i \in 1..Len(m) |->
          IF m[i].key = key THEN [key |-> key, data |-> data] ELSE m[i]]
  ELSE Append(m, [key |-> key, data |-> data])

\* Map.prototype.delete
MapDelete(m, key) == SelectSeq(m, LAMBDA e : e.key # key)

\* ------------------------------------------------------------------------
\* evaluateFormula
\* ------------------------------------------------------------------------
\* the replace callback without the isNaN test of line 70
Replacement_NoNaNTest(match, cells) ==
  LET pos == parseReference(match)
  IN  IF pos = None THEN << "0" >>
      ELSE LET cell == MapGet(cells, CellKey(pos.row, pos.col))
           IN  IF cell = None THEN << "0" >>
               ELSE IF cell.computed # Undefined THEN toString(cell.computed)
               ELSE toString(parseFloat(cell.value))

\* the replace callback: the text a matched reference is replaced by
Replacement(match, cells) ==
  LET pos == parseReference(match)
  IN  IF pos = None THEN << "0" >>
      ELSE LET cell == MapGet(cells, CellKey(pos.row, pos.col))
           IN  IF cell = None THEN << "0" >>
               ELSE IF cell.computed # Undefined THEN toString(cell.computed)
               ELSE LET numValue == parseFloat(cell.value)
                    IN  IF numValue.kind = "nan" THEN << "0" >>
                        ELSE toString(numValue)

\* expression.replace(/[A-Z]+\d+/g, callback) from position i on: a run of
\* capitals followed by digits is a match (the longest one), a run of capitals
\* followed by no digit holds no match
RECURSIVE ReplaceRefs(_, _, _)
ReplaceRefs(cs, i, cells) ==
  IF i > Len(cs) THEN << >>
  ELSE IF IsUpper(cs[i]) THEN
    LET nl == UpperRun(cs, i)
        nd == DigitRun(cs, i + nl)
    IN  IF nd >= 1
        THEN Replacement(SubSeq(cs, i, i + nl + nd - 1), cells)
             \o ReplaceRefs(cs, i + nl + nd, cells)
        ELSE SubSeq(cs, i, i + nl - 1) \o ReplaceRefs(cs, i + nl, cells)
  ELSE << cs[i] >> \o ReplaceRefs(cs, i + 1, cells)

evaluateFormula(formula, cells) ==
  LET expression == SubSeq(formula, 2, Len(formula))
      processedExpression == ReplaceRefs(expression, 1, cells)
      r == JSEval(processedExpression)
  IN  IF ~r.ok THEN ErrorMarker
      ELSE IF r.v.kind \in {"num", "inf", "nan", "unmodelled"} THEN r.v
      ELSE Str(toString(r.v))

\* ------------------------------------------------------------------------
\* updateCell
\* ------------------------------------------------------------------------
\* cell.formula as a condition: a non-empty string
Truthy(v) == v.kind = "str" /\ v.s # << >>

\* value.startsWith("=")
StartsWithEq(value) == Len(value) >= 1 /\ value[1] = "="

\* the record of lines 126-131 with computed evaluated for every text
NewCellData_AlwaysComputed(value, newCells) ==
  CellData(value,
           IF StartsWithEq(value) THEN Str(value) ELSE Undefined,
           evaluateFormula(value, newCells))

\* the record built at lines 126-131; evaluateFormula reads the copy of the
\* store before the record is set
NewCellData(value, newCells) ==
  LET isFormula == StartsWithEq(value)
  IN  CellData(value,
               IF isFormula THEN Str(value) ELSE Undefined,
               IF isFormula THEN evaluateFormula(value, newCells) ELSE Undefined)

\* lines 120-133 without the branch of line 123: an empty text is stored
DirectWrite_StoreBlank(prev, row, col, value) ==
  MapSet(prev, CellKey(row, col), NewCellData(value, prev))

\* lines 120-133: copy the store, then delete or set the edited key
DirectWrite(prev, row, col, value) ==
  LET key == CellKey(row, col)
  IN  IF value = << >> THEN MapDelete(prev, key)
      ELSE MapSet(prev, key, NewCellData(value, prev))

\* the pass without "changed = true" (line 145)
RECURSIVE ForEachFrom_NoFlag(_, _, _)
ForEachFrom_NoFlag(m, i, changed) ==
  IF i > Len(m) THEN [cells |-> m, changed |-> changed]
  ELSE LET cell == m[i].data
       IN  IF Truthy(cell.formula)
           THEN ForEachFrom_NoFlag(
                  [m EXCEPT ![i].data.computed =
                              evaluateFormula(cell.formula.s, m)],
                  i + 1, changed)
           ELSE ForEachFrom_NoFlag(m, i + 1, changed)

\* the pass with a failure that is not local: an evaluation that yields the
\* error marker marks every record of the store
RECURSIVE ForEachFrom_ErrorSpreads(_, _, _)
ForEachFrom_ErrorSpreads(m, i, changed) ==
  IF i > Len(m) THEN [cells |-> m, changed |-> changed]
  ELSE LET cell == m[i].data
       IN  IF Truthy(cell.formula)
           THEN LET prevComputed == cell.computed
                    computed == evaluateFormula(cell.formula.s, m)
                IN  IF computed = ErrorMarker
                    THEN [cells |-> [k \in DOMAIN m |->
                                      [m[k] EXCEPT !.data.computed = ErrorMarker]],
                          changed |-> FALSE]
                    ELSE IF StrictNotEqual(computed, prevComputed)
                    THEN ForEachFrom_ErrorSpreads(
                           [m EXCEPT ![i].data.computed = computed], i + 1, TRUE)
                    ELSE ForEachFrom_ErrorSpreads(m, i + 1, changed)
           ELSE ForEachFrom_ErrorSpreads(m, i + 1, changed)

\* newCells.forEach of one pass of the while loop, from entry i on: every
\* formula cell is evaluated against the store as the pass has left it so far
RECURSIVE ForEachFrom(_, _, _)
ForEachFrom(m, i, changed) ==
  IF i > Len(m) THEN [cells |-> m, changed |-> changed]
  ELSE LET cell == m[i].data
       IN  IF Truthy(cell.formula)
           THEN LET prevComputed == cell.computed
                    computed == evaluateFormula(cell.formula.s, m)
                IN  IF StrictNotEqual(computed, prevComputed)
                    THEN ForEachFrom([m EXCEPT ![i].data.computed = computed],
                                     i + 1, TRUE)
                    ELSE ForEachFrom(m, i + 1, changed)
           ELSE ForEachFrom(m, i + 1, changed)

\* updateCell without the while loop of lines 135-149
RecalcOnce_Skip(m) == [cells |-> m, changed |-> FALSE]

\* one pass: changed = false; newCells.forEach(...)
RecalcOnce(m) == ForEachFrom(m, 1, FALSE)

\* the while loop of lines 135-149 run for at most fuel passes: the store
\* it leaves, and whether the last pass changed nothing
RECURSIVE RunLoop(_, _)
RunLoop(m, fuel) ==
  LET r == RecalcOnce(m)
  IN  IF ~r.changed THEN [cells |-> r.cells, done |-> TRUE]
      ELSE IF fuel <= 1 THEN [cells |-> r.cells, done |-> FALSE]
      ELSE RunLoop(r.cells, fuel - 1)

\* the store prev as it reads once updateCell works on newCells: new Map(prev)
\* (line 120) copies the entries and shares their records, so the record of
\* every key but the edited one, which gets a record of its own (lines
\* 126-132), is the object that line 144 writes to
PrevSeen(prev, newCells_, key) ==
  [k \in DOMAIN prev |->
     IF prev[k].key # key /\ MapHas(newCells_, prev[k].key)
     THEN [key |-> prev[k].key, data |-> MapGet(newCells_, prev[k].key)]
     ELSE prev[k]]

\* getCellData
getCellData(m, row, col) == MapGet(m, CellKey(row, col))

\* ------------------------------------------------------------------------
\* The viewport window (useMemo at lines 95-108)
\* ------------------------------------------------------------------------
Min(a, b) == IF a < b THEN a ELSE b

ComputeVisibleRange(top, left, h, w) ==
  LET startRow == top \div CELL_HEIGHT
      endRow == Min(startRow + (h \div CELL_HEIGHT) + 2, TOTAL_ROWS)
      startCol == left \div CELL_WIDTH
      endCol == Min(startCol + (w \div CELL_WIDTH) + 2, TOTAL_COLS)
  IN  [rowLength |-> endRow - startRow, startRow |-> startRow,
       endRow |-> endRow, startCol |-> startCol, endCol |-> endCol]

\* ------------------------------------------------------------------------
\* Inputs
\* ------------------------------------------------------------------------
\* the cells the edits write to: A1, B1, C1, ...
EditCols == 0 .. (NumEditCols - 1)

\* the texts typed into a cell
RawTexts ==
  { << >>,
    << "5" >>, << "7" >>, << "a", "b", "c" >>,
    << "=", "A", "1", "*", "2" >>,
    << "=", "B", "1", "+", "1" >>,
    << "=", "A", "1", "+", "1" >>,
    << "=", "1", "/", "0" >>,
    << "=", "0", "/", "0" >> }

\* scroll offsets reported by the scroll container, in pixels: before the
\* first row, inside the sheet, at and beyond the last row
ScrollTops ==
  { -CELL_HEIGHT, 0, CELL_HEIGHT + 15,
    (TOTAL_ROWS - 1) * CELL_HEIGHT, (TOTAL_ROWS + 1) * CELL_HEIGHT }

ScrollLefts == { -CELL_WIDTH, 0, (TOTAL_COLS + 1) * CELL_WIDTH }

\* window sizes reported by useWindowDimensions, in pixels
Heights ==
  { n * CELL_HEIGHT : n \in 1..MaxViewCells }
    \cup { CELL_HEIGHT + 15, TOTAL_ROWS * CELL_HEIGHT }

Widths == { CELL_WIDTH, MaxViewCells * CELL_WIDTH, TOTAL_COLS * CELL_WIDTH }

\* ------------------------------------------------------------------------
\* State
\* ------------------------------------------------------------------------
VARIABLES
  cells,         \* the cells state of the component (the committed store),
                 \* its records with the values they had when it was set
  newCells,      \* the copy the updater of updateCell works on
  pc,            \* "idle", or "recalc" inside the while loop of updateCell
  passes,        \* passes of the while loop run so far by the updateCell
                 \* in progress
  lastEdit,      \* the arguments of the latest updateCell call
  selectedCell,  \* useState<CellPosition>
  editingCell,   \* useState<CellPosition | null>
  editValue,     \* useState("")
  scrollTop,     \* useState(0)
  scrollLeft,    \* useState(0)
  height,        \* useWindowDimensions().height
  width,         \* useWindowDimensions().width
  visibleRange,  \* the value memoised by useMemo
  lastEvent,     \* the latest event handled ("Enter", "Escape", "blur" or
                 \* "other"), with the edit state it was handled in
  parsedRef      \* the latest text given to parseReference, and its result

sheetVars == << cells, newCells, pc, passes, lastEdit >>
selVars == << selectedCell, editingCell, editValue, lastEvent >>
viewVars == << scrollTop, scrollLeft, height, width, visibleRange >>
refVars == << parsedRef >>
vars == << cells, newCells, pc, passes, lastEdit, selectedCell, editingCell,
           editValue, scrollTop, scrollLeft, height, width, visibleRange,
           lastEvent, parsedRef >>

Init ==
  /\ cells = << >>
  /\ newCells = << >>
  /\ pc = "idle"
  /\ passes = 0
  /\ lastEdit = [row |-> -1, col |-> -1, value |-> << >>]
  /\ selectedCell = [row |-> 0, col |-> 0]
  /\ editingCell = None
  /\ editValue = << >>
  /\ scrollTop = 0
  /\ scrollLeft = 0
  /\ height = MaxViewCells * CELL_HEIGHT
  /\ width = MaxViewCells * CELL_WIDTH
  /\ visibleRange = ComputeVisibleRange(0, 0, height, width)
  /\ lastEvent = [name |-> "other", editing |-> None, buffer |-> << >>]
  /\ parsedRef = [ref |-> << >>, pos |-> parseReference(<< >>)]

\* ------------------------------------------------------------------------
\* Actions of the sheet
\* ------------------------------------------------------------------------
\* what a pass of the while loop leaves: with a change the loop goes on, with
\* none the updater returns newCells, which becomes the cells state
AfterPass(r, n) ==
  /\ newCells' = r.cells
  /\ IF r.changed
     THEN pc' = "recalc" /\ passes' = n /\ cells' = cells
     ELSE pc' = "idle" /\ passes' = 0 /\ cells' = r.cells

\* updateCell(row, col, value): the direct write and the first pass of the
\* while loop, which always runs
UpdateCell(row, col, value) ==
  /\ pc = "idle"
  /\ lastEdit' = [row |-> row, col |-> col, value |-> value]
  /\ AfterPass(RecalcOnce(DirectWrite(cells, row, col, value)), 1)
  /\ UNCHANGED << selVars, viewVars, refVars >>

\* a further iteration of while (changed)
RecalcPass ==
  /\ pc = "recalc"
  /\ passes < MaxPasses
  /\ AfterPass(RecalcOnce(newCells), passes + 1)
  /\ UNCHANGED << lastEdit, selVars, viewVars, refVars >>

Next ==
  \/ \E col \in EditCols, value \in RawTexts : UpdateCell(0, col, value)
  \/ RecalcPass

Spec == Init /\ [][Next]_vars

\* ------------------------------------------------------------------------
\* Actions of the viewport
\* ------------------------------------------------------------------------
\* handleScroll; the memo is recomputed when scrollTop or scrollLeft changed
HandleScroll(top, left) ==
  /\ scrollTop' = top
  /\ scrollLeft' = left
  /\ visibleRange' =
       IF top # scrollTop \/ left # scrollLeft
       THEN ComputeVisibleRange(top, left, height, width)
       ELSE visibleRange
  /\ UNCHANGED << height, width, sheetVars, selVars, refVars >>

\* the window is resized: useWindowDimensions reports the new size; the
\* dependencies of the memo are [scrollTop, scrollLeft], so it is kept
Resize(h, w) ==
  /\ height' = h
  /\ width' = w
  /\ UNCHANGED << scrollTop, scrollLeft, visibleRange, sheetVars, selVars,
                  refVars >>

NextView ==
  \/ \E top \in ScrollTops, left \in ScrollLefts : HandleScroll(top, left)
  \/ \E h \in Heights, w \in Widths : Resize(h, w)

SpecView == Init /\ [][NextView]_vars

\* ------------------------------------------------------------------------
\* Actions of the selection
\* ------------------------------------------------------------------------
\* an event, with the cell being edited and the buffer when it is handled
Event(name) == [name |-> name, editing |-> editingCell, buffer |-> editValue]

handleCellClick(row, col) ==
  /\ pc = "idle"
  /\ selectedCell' = [row |-> row, col |-> col]
  /\ editingCell' = None
  /\ lastEvent' = Event("other")
  /\ UNCHANGED << editValue, sheetVars, viewVars, refVars >>

\* the columns a click selects
ClickCols == (0..MaxCol) \cup { TOTAL_COLS - 1 }

NextCodec ==
  \E row \in 0..MaxRow, col \in ClickCols : handleCellClick(row, col)

SpecCodec == Init /\ [][NextCodec]_vars

\* ------------------------------------------------------------------------
\* parseReference on its own
\* ------------------------------------------------------------------------
\* texts the pattern of line 39 matches: a column label and a row number,
\* the row number 0 among them
RefLabels ==
  { getColumnLabel(c) \o NatToChars(r) : c \in 0..MaxRefCol, r \in 0..MaxRefRow }

\* texts the pattern does not match: "", "A", "1", "a1", "1A", "A1B", "A-1",
\* "A 1", "=A1"
NonRefTexts ==
  { << >>, << "A" >>, << "1" >>, << "a", "1" >>, << "1", "A" >>,
    << "A", "1", "B" >>, << "A", "-", "1" >>, << "A", " ", "1" >>,
    << "=", "A", "1" >> }

\* a call of parseReference
ParseRef(ref) ==
  /\ parsedRef' = [ref |-> ref, pos |-> parseReference(ref)]
  /\ UNCHANGED << sheetVars, selVars, viewVars >>

NextRef == \E ref \in RefLabels \cup NonRefTexts : ParseRef(ref)

SpecRef == Init /\ [][NextRef]_vars

\* ------------------------------------------------------------------------
\* Edits with negative literals and with formulas that fail
\* ------------------------------------------------------------------------
\* "", "5", "-3", "=5-A1", "=5+A1", "=B1*2" and "=1+", which does not parse
ArithTexts ==
  { << >>,
    << "5" >>,
    << "-", "3" >>,
    << "=", "5", "-", "A", "1" >>,
    << "=", "5", "+", "A", "1" >>,
    << "=", "B", "1", "*", "2" >>,
    << "=", "1", "+" >> }

NextArith ==
  \/ \E col \in EditCols, value \in ArithTexts : UpdateCell(0, col, value)
  \/ RecalcPass

SpecArith == Init /\ [][NextArith]_vars

\* ------------------------------------------------------------------------
\* Edits that build chains of references in every insertion order
\* ------------------------------------------------------------------------
\* one more cell than the sheet of Spec, for a chain C1 -> B1 -> A1
ChainCols == 0 .. NumEditCols

\* the texts that make the cells of row 1 a chain: a number in A1, and in
\* every other cell a formula over the cell to its left ("=A1+1" or "=A1*2"
\* in B1, "=B1+1" or "=B1*2" in C1, ...), or no text
ChainTexts(col) ==
  IF col = 0 THEN { << >>, << "5" >>, << "7" >> }
  ELSE LET ref == getColumnLabel(col - 1) \o << "1" >>
       IN  { << >>,
             << "=" >> \o ref \o << "+", "1" >>,
             << "=" >> \o ref \o << "*", "2" >> }

NextChain ==
  \/ \E col \in ChainCols : \E value \in ChainTexts(col) :
       UpdateCell(0, col, value)
  \/ RecalcPass

SpecChain == Init /\ [][NextChain]_vars

\* ------------------------------------------------------------------------
\* Actions of the edit state machine
\* ------------------------------------------------------------------------
\* the texts typed into the input of the cell being edited
EditTexts ==
  { << >>, << "7" >>, << "=", "A", "1", "*", "2" >> }

\* the keys of a keydown event
Keys == { "Enter", "Escape", "a" }

\* cellData?.value || ""
ValueOrEmpty(cellData) == IF cellData = None THEN << >> ELSE cellData.value

handleCellDoubleClick(row, col) ==
  /\ pc = "idle"
  /\ editingCell' = [row |-> row, col |-> col]
  /\ editValue' = ValueOrEmpty(getCellData(cells, row, col))
  /\ lastEvent' = Event("other")
  /\ UNCHANGED << selectedCell, sheetVars, viewVars, refVars >>

\* onChange of the input rendered for the cell being edited
InputChange(text) ==
  /\ pc = "idle"
  /\ editingCell # None
  /\ editValue' = text
  /\ lastEvent' = Event("other")
  /\ UNCHANGED << selectedCell, editingCell, sheetVars, viewVars, refVars >>

\* Escape in handleKeyDown, with the store written to as well
Cancel_WritesBuffer ==
  /\ lastEdit' = [row |-> editingCell.row, col |-> editingCell.col,
                  value |-> editValue]
  /\ AfterPass(RecalcOnce(DirectWrite(cells, editingCell.row,
                                      editingCell.col, editValue)), 1)
  /\ editingCell' = None
  /\ editValue' = << >>

\* the Escape branch of handleKeyDown (lines 190-193)
Cancel ==
  /\ editingCell' = None
  /\ editValue' = << >>
  /\ UNCHANGED sheetVars

\* handleEditConfirm writing the text of the cell instead of the buffer
handleEditConfirm_KeepsText ==
  IF editingCell # None
  THEN /\ lastEdit' = [row |-> editingCell.row, col |-> editingCell.col,
                       value |-> ValueOrEmpty(getCellData(cells,
                                   editingCell.row, editingCell.col))]
       /\ AfterPass(RecalcOnce(cells), 1)
       /\ editingCell' = None
       /\ editValue' = << >>
  ELSE UNCHANGED << sheetVars, editingCell, editValue >>

\* handleEditConfirm (lines 170-176): updateCell with the buffer, then the
\* edit state is cleared
handleEditConfirm ==
  IF editingCell # None
  THEN /\ lastEdit' = [row |-> editingCell.row, col |-> editingCell.col,
                       value |-> editValue]
       /\ AfterPass(RecalcOnce(DirectWrite(cells, editingCell.row,
                                           editingCell.col, editValue)), 1)
       /\ editingCell' = None
       /\ editValue' = << >>
  ELSE UNCHANGED << sheetVars, editingCell, editValue >>

\* handleKeyDown (lines 185-196)
handleKeyDown(key) ==
  /\ pc = "idle"
  /\ lastEvent' = Event(IF key \in { "Enter", "Escape" } THEN key ELSE "other")
  /\ IF editingCell # None
     THEN IF key = "Enter" THEN handleEditConfirm
          ELSE IF key = "Escape" THEN Cancel
          ELSE UNCHANGED << sheetVars, editingCell, editValue >>
     ELSE UNCHANGED << sheetVars, editingCell, editValue >>
  /\ UNCHANGED << selectedCell, viewVars, refVars >>

\* onBlur of the input, which is rendered while a cell is being edited
InputBlur ==
  /\ pc = "idle"
  /\ editingCell # None
  /\ lastEvent' = Event("blur")
  /\ handleEditConfirm
  /\ UNCHANGED << selectedCell, viewVars, refVars >>

NextEdit ==
  \/ \E col \in EditCols : handleCellClick(0, col)
  \/ \E col \in EditCols : handleCellDoubleClick(0, col)
  \/ \E text \in EditTexts : InputChange(text)
  \/ \E key \in Keys : handleKeyDown(key)
  \/ InputBlur
  \/ RecalcPass

SpecEdit == Init /\ [][NextEdit]_vars

\* ------------------------------------------------------------------------
\* Properties
\* ------------------------------------------------------------------------
T_Empty == << >>
T_5 == << "5" >>
T_7 == << "7" >>
T_abc == << "a", "b", "c" >>
T_A1x2 == << "=", "A", "1", "*", "2" >>
T_A1p1 == << "=", "A", "1", "+", "1" >>
T_B1p1 == << "=", "B", "1", "+", "1" >>
T_1d0 == << "=", "1", "/", "0" >>
T_0d0 == << "=", "0", "/", "0" >>

\* the records of a store
Records(m) == { m[i].data : i \in 1..Len(m) }

\* the cells A1 and B1 of the committed store
A1 == getCellData(cells, 0, 0)
B1 == getCellData(cells, 0, 1)

IsFinite(v) == v.kind = "num"

\* a pass bound of the kind the recalculation is meant to have: one more than
\* the number of formula cells the store of the model can hold
PassCeiling == NumEditCols + 1

\* C1: every updateCell call is over within a bounded number of passes of the
\* recalculation loop, also for a cyclic or self-referencing formula: the
\* loop never runs more than PassCeiling passes.
C1_TerminatesWithinBound == passes <= PassCeiling

\* C2: whenever updateCell has returned, every formula cell's cached computed
\* value equals evaluateFormula of its formula against the final store.
C2_FixedPoint ==
  pc = "idle" =>
    \A d \in Records(cells) :
      Truthy(d.formula) => d.computed = evaluateFormula(d.formula.s, cells)

\* the recalculation loop, not the direct write, has set B1 after an edit of A1
C2_Witness ==
  /\ pc = "idle"
  /\ lastEdit = [row |-> 0, col |-> 0, value |-> T_7]
  /\ B1 # None
  /\ B1.value = T_A1p1
  /\ B1.computed = Num(8)

\* C3: an edit of a literal cell reaches the formula cells that reference it:
\* when updateCell has returned, B1 = "=A1*2" holds twice the number A1 holds
\* (10 for A1 = "5", 14 for A1 = "7"), whichever cell was edited last.
C3_Propagates ==
  (/\ pc = "idle"
   /\ A1 # None
   /\ B1 # None
   /\ B1.value = T_A1x2
   /\ A1.formula = Undefined
   /\ parseFloat(A1.value).kind = "num")
  => /\ B1.computed = Num(2 * parseFloat(A1.value).n)
     /\ (A1.value = T_5 => B1.computed = Num(10))
     /\ (A1.value = T_7 => B1.computed = Num(14))

\* A1 was set to "7" by the latest edit and B1 shows 14
C3_Witness ==
  /\ pc = "idle"
  /\ lastEdit = [row |-> 0, col |-> 0, value |-> T_7]
  /\ B1 # None
  /\ B1.value = T_A1x2
  /\ B1.computed = Num(14)

\* C4: after updateCell(address, "") the store has no entry for the address
\* (getCellData returns none), and no store ever holds an entry with empty
\* raw text.
C4_RemovedOnEmpty ==
  /\ (lastEdit.row >= 0 /\ lastEdit.value = T_Empty) =>
       /\ getCellData(newCells, lastEdit.row, lastEdit.col) = None
       /\ (pc = "idle" =>
             getCellData(cells, lastEdit.row, lastEdit.col) = None)
  /\ \A d \in Records(cells) \cup Records(newCells) : d.value # T_Empty

\* an entry that the store held is deleted while the recalculation goes on
C4_Witness ==
  /\ pc = "recalc"
  /\ lastEdit.value = T_Empty
  /\ getCellData(cells, lastEdit.row, lastEdit.col) # None
  /\ getCellData(newCells, lastEdit.row, lastEdit.col) = None

\* C5: in every record of every store, also inside the recalculation loop,
\* the formula is set iff the raw text begins with "=" (and is the raw text),
\* and the computed value is set iff the formula is set.
C5_RecordShape ==
  \A d \in Records(cells) \cup Records(newCells) :
    /\ (d.formula # Undefined) <=> StartsWithEq(d.value)
    /\ d.formula # Undefined => d.formula = Str(d.value)
    /\ (d.computed # Undefined) <=> (d.formula # Undefined)

\* a store with a literal and a formula record after a pass of the loop
C5_Witness ==
  /\ pc = "recalc"
  /\ passes >= 2
  /\ \E d \in Records(newCells) : d.formula = Undefined
  /\ \E d \in Records(newCells) : d.formula # Undefined

\* C6: a formula whose arithmetic result is not finite evaluates to the error
\* marker: "=1/0" and "=0/0" are cached as "#ERROR", and no cached computed
\* value is Infinity, -Infinity or NaN.
C6_NonFiniteIsError ==
  \A d \in Records(cells) \cup Records(newCells) :
    /\ d.value \in { T_1d0, T_0d0 } => d.computed = ErrorMarker
    /\ d.computed # Undefined => d.computed.kind \notin { "inf", "nan" }

\* C7: parseReference(getColumnLabel(col) + "1") is an address of column col
\* and row 0, for every column index col >= 0 of the range.
C7_RoundTrip ==
  LET r == parseReference(getColumnLabel(selectedCell.col) \o << "1" >>)
  IN  /\ r # None
      /\ r.col = selectedCell.col
      /\ r.row = 0

\* a column whose label has three letters
C7_Witness ==
  /\ selectedCell.col = 702
  /\ getColumnLabel(selectedCell.col) = << "A", "A", "A" >>
  /\ parseReference(<< "A", "A", "A", "1" >>) = [row |-> 0, col |-> 702]

\* C8: the window satisfies 0 <= startRow <= endRow <= TOTAL_ROWS and
\* 0 <= startCol <= endCol <= TOTAL_COLS for every scroll offset and size.
C8_WindowInBounds ==
  /\ 0 <= visibleRange.startRow
  /\ visibleRange.startRow <= visibleRange.endRow
  /\ visibleRange.endRow <= TOTAL_ROWS
  /\ 0 <= visibleRange.startCol
  /\ visibleRange.startCol <= visibleRange.endCol
  /\ visibleRange.endCol <= TOTAL_COLS

\* C9: at scrollTop = 0 and scrollLeft = 0, with a viewport of exactly N cell
\* heights, the window starts at row 0 and has min(N + 2, TOTAL_ROWS) rows.
C9_WindowAtOrigin ==
  (scrollTop = 0 /\ scrollLeft = 0 /\ height % CELL_HEIGHT = 0) =>
    /\ visibleRange.startRow = 0
    /\ visibleRange.endRow - visibleRange.startRow =
         Min((height \div CELL_HEIGHT) + 2, TOTAL_ROWS)

\* the references a formula of the model can hold: A1, B1, ... and one more
RefTexts == { getColumnLabel(c) \o << "1" >> : c \in 0..NumEditCols }

\* the cell ref names is not in store m, or is a literal whose text is no number
DegradesToZero(ref, m) ==
  LET pos == parseReference(ref)
      cell == getCellData(m, pos.row, pos.col)
  IN  \/ cell = None
      \/ cell.formula = Undefined /\ parseFloat(cell.value).kind = "nan"

\* the text cs from position i on, with every reference ref replaced by "0"
RECURSIVE SubstZero(_, _, _)
SubstZero(cs, i, ref) ==
  IF i > Len(cs) THEN << >>
  ELSE IF IsUpper(cs[i]) THEN
    LET n == UpperRun(cs, i) + DigitRun(cs, i + UpperRun(cs, i))
    IN  (IF SubSeq(cs, i, i + n - 1) = ref THEN << "0" >>
         ELSE SubSeq(cs, i, i + n - 1))
        \o SubstZero(cs, i + n, ref)
  ELSE << cs[i] >> \o SubstZero(cs, i + 1, ref)

\* C10: a reference to an address that is not in the store, or to a literal
\* cell whose text is no number, counts as 0: the formula evaluates to what
\* it evaluates to with the reference replaced by 0, in every store, and
\* that is the value cached when updateCell has returned.
C10_DanglingIsZero ==
  /\ \A d \in Records(newCells), ref \in RefTexts :
       (Truthy(d.formula) /\ DegradesToZero(ref, newCells)) =>
         evaluateFormula(d.formula.s, newCells)
           = evaluateFormula(SubstZero(d.formula.s, 1, ref), newCells)
  /\ pc = "idle" =>
       \A d \in Records(cells), ref \in RefTexts :
         (Truthy(d.formula) /\ DegradesToZero(ref, cells)) =>
           d.computed = evaluateFormula(SubstZero(d.formula.s, 1, ref), cells)

\* B1 = "=A1+1" shows 1 while A1 holds the text "abc"
C10_Witness ==
  /\ pc = "idle"
  /\ A1 # None
  /\ A1.value = T_abc
  /\ B1 # None
  /\ B1.value = T_A1p1
  /\ B1.computed = Num(1)

\* ------------------------------------------------------------------------
\* The edit state machine
\* ------------------------------------------------------------------------
\* the raw text of a cell, "" when the store has no entry for it
RawText(m, row, col) == ValueOrEmpty(getCellData(m, row, col))

\* C11: Escape while a cell is being edited leaves no cell being edited,
\* empties the buffer and leaves the store as it was, whatever the buffer
\* holds.
C11_CancelDiscards ==
  [][(pc = "idle" /\ editingCell # None /\ lastEvent'.name = "Escape")
       => /\ editingCell' = None
          /\ editValue' = << >>
          /\ cells' = cells
          /\ newCells' = newCells
          /\ pc' = "idle"]_vars

\* Escape was handled while a cell with a non-empty buffer was being edited,
\* over a store that has entries
C11_Witness ==
  /\ lastEvent.name = "Escape"
  /\ lastEvent.editing # None
  /\ lastEvent.buffer # << >>
  /\ lastEvent.buffer # RawText(cells, lastEvent.editing.row,
                                lastEvent.editing.col)
  /\ cells # << >>

\* what holds once Enter or blur was handled while a cell was being edited
CommitDone ==
  (lastEvent.name \in { "Enter", "blur" } /\ lastEvent.editing # None)
    => /\ editingCell = None
       /\ editValue = << >>
       /\ lastEdit = [row |-> lastEvent.editing.row,
                      col |-> lastEvent.editing.col,
                      value |-> lastEvent.buffer]
       /\ pc = "idle"
            => /\ RawText(cells, lastEvent.editing.row,
                          lastEvent.editing.col) = lastEvent.buffer
               /\ lastEvent.buffer = << >>
                    => ~MapHas(cells, CellKey(lastEvent.editing.row,
                                              lastEvent.editing.col))

\* C12: Enter or blur while a cell is being edited calls updateCell on that
\* cell with the buffer and clears the edit state: when it has returned no
\* cell is being edited and the raw text of the edited cell is the buffer
\* (no entry when the buffer is empty); Enter while no cell is being edited
\* changes nothing.
C12_CommitWrites ==
  /\ []CommitDone
  /\ [][(pc = "idle" /\ editingCell = None /\ lastEvent'.name = "Enter")
          => UNCHANGED << sheetVars, selectedCell, editingCell, editValue >>]_vars

\* a commit of a non-empty buffer that differs from the text of the cell
\* has returned
C12_Witness ==
  /\ lastEvent.name \in { "Enter", "blur" }
  /\ lastEvent.editing # None
  /\ lastEvent.buffer = << "=", "A", "1", "*", "2" >>
  /\ pc = "idle"
  /\ Len(cells) = NumEditCols

\* ------------------------------------------------------------------------
\* Failures of evaluation
\* ------------------------------------------------------------------------
\* the keys of the store
Keys_(m) == { m[k].key : k \in DOMAIN m }

\* the keys the references of the text cs name, from position i on
RECURSIVE RefKeys(_, _)
RefKeys(cs, i) ==
  IF i > Len(cs) THEN {}
  ELSE IF IsUpper(cs[i]) THEN
    LET nl == UpperRun(cs, i)
        nd == DigitRun(cs, i + nl)
        pos == parseReference(SubSeq(cs, i, i + nl + nd - 1))
    IN  IF nd >= 1
        THEN { CellKey(pos.row, pos.col) } \cup RefKeys(cs, i + nl + nd)
        ELSE RefKeys(cs, i + nl)
  ELSE RefKeys(cs, i + 1)

\* the keys the formula of the cell at key references
References(m, key) ==
  LET cell == MapGet(m, key)
  IN  IF cell # None /\ Truthy(cell.formula)
      THEN RefKeys(cell.formula.s, 2) ELSE {}

\* the keys reached from the keys of S by references, S included
RECURSIVE RefClosure(_, _, _)
RefClosure(m, S, fuel) ==
  LET more == UNION { References(m, k) : k \in S }
  IN  IF fuel = 0 \/ more \subseteq S THEN S
      ELSE RefClosure(m, S \cup more, fuel - 1)

\* the keys the cell at key references, directly or through other cells
TransRefs(m, key) ==
  LET direct == References(m, key)
  IN  IF direct = {} THEN {} ELSE RefClosure(m, direct, Len(m) + 1)

\* the keys of m that transitively reference key
Referencing(m, key) == { k \in Keys_(m) : key \in TransRefs(m, k) }

\* no cell of m references itself, directly or through other cells
Acyclic(m) == \A k \in Keys_(m) : k \notin TransRefs(m, k)

\* the key of the latest edit
EditedKey(e) == CellKey(e.row, e.col)

\* the cells of new that hold the error marker and did not in old
NewFailures(old, new) ==
  { k \in Keys_(new) :
      /\ MapGet(new, k).computed = ErrorMarker
      /\ MapGet(old, k) = None \/ MapGet(old, k).computed # ErrorMarker }

EffectiveValue(m, row, col) ==
  LET cell == getCellData(m, row, col)
  IN  IF cell = None THEN Num(0)
      ELSE IF cell.computed # Undefined THEN cell.computed
      ELSE IF parseFloat(cell.value).kind = "nan" THEN Num(0)
      ELSE parseFloat(cell.value)

\* C16: with A1 holding the finite value v, negative ones included, "=5-A1"
\* evaluates to 5 - v and "=5+A1" to 5 + v, never to the error marker.
C16_SignedOperand ==
  pc = "idle" =>
    LET v == EffectiveValue(cells, 0, 0)
    IN  v.kind = "num" =>
          \A d \in Records(cells) :
            /\ d.value = << "=", "5", "-", "A", "1" >>
                 => d.computed = Num(5 - v.n)
            /\ d.value = << "=", "5", "+", "A", "1" >>
                 => d.computed = Num(5 + v.n)

\* ------------------------------------------------------------------------
\* The window after a resize
\* ------------------------------------------------------------------------
\* C14: after any sequence of scroll and resize events the window in use is
\* the window computed from the current scroll offsets and the current
\* height and width.
C14_WindowIsCurrent ==
  visibleRange = ComputeVisibleRange(scrollTop, scrollLeft, height, width)

\* ------------------------------------------------------------------------
\* Insertion order
\* ------------------------------------------------------------------------
\* the entries of m in the order of their columns (the model has one row)
RECURSIVE InsertByCol(_, _)
InsertByCol(e, sorted) ==
  IF sorted = << >> THEN << e >>
  ELSE IF e.key[2] <= Head(sorted).key[2] THEN << e >> \o sorted
  ELSE << Head(sorted) >> \o InsertByCol(e, Tail(sorted))

RECURSIVE ByCol(_)
ByCol(m) == IF m = << >> THEN << >> ELSE InsertByCol(Head(m), ByCol(Tail(m)))

\* the entries of m in the opposite order
Reversed(m) == [k \in DOMAIN m |-> m[Len(m) + 1 - k]]

\* what updateCell leaves of the store m for the edit e
Updated(m, e) == RunLoop(DirectWrite(m, e.row, e.col, e.value), Len(m) + 3)

\* the computed value of every key of m
ComputedOf(m) == [k \in Keys_(m) |-> MapGet(m, k).computed]

\* C15: for a store whose references are acyclic the computed values that
\* updateCell leaves do not depend on the insertion order: the store an edit
\* leaves has, for every cell, the computed value the same edit leaves when
\* the same cells are held in the order of their columns, and in the
\* opposite order.
C15_OrderIndependent ==
  [][\A e \in { lastEdit' }, post \in { cells' }, m \in { ByCol(cells) } :
       (pc' = "idle" /\ e.row >= 0 /\ Acyclic(post))
         => \A u \in { Updated(m, e), Updated(Reversed(m), e) } :
              u.done /\ ComputedOf(u.cells) = ComputedOf(post)]_vars

\* the chain was inserted as C1, B1, A1, against the direction a pass needs,
\* and holds the values of the chain
C15_Witness ==
  /\ pc = "idle"
  /\ Len(cells) = 3
  /\ cells[1].key = CellKey(0, 2)
  /\ cells[2].key = CellKey(0, 1)
  /\ cells[3].key = CellKey(0, 0)
  /\ cells[1].data.value = << "=", "B", "1", "*", "2" >>
  /\ cells[2].data.value = << "=", "A", "1", "+", "1" >>
  /\ cells[3].data.value = << "5" >>
  /\ cells[1].data.computed = Num(12)
  /\ cells[2].data.computed = Num(6)
  /\ lastEdit.col = 0

\* ------------------------------------------------------------------------
\* Addresses of references
\* ------------------------------------------------------------------------
\* cs is one or more capitals followed by one or more digits
IsRefText(cs) ==
  \E n \in 1 .. (Len(cs) - 1) :
    /\ \A i \in 1 .. n : cs[i] \in UpperSet
    /\ \A i \in (n + 1) .. Len(cs) : cs[i] \in DigitSet

\* C17: for every text of capitals followed by digits, the row number 0
\* included, parseReference returns an address whose row and col are not
\* negative; for every other text it returns none.
C17_ValidAddress ==
  IF IsRefText(parsedRef.ref)
  THEN /\ parsedRef.pos # None
       /\ parsedRef.pos.row >= 0
       /\ parsedRef.pos.col >= 0
  ELSE parsedRef.pos = None

\* ------------------------------------------------------------------------
\* The previous store
\* ------------------------------------------------------------------------
\* C18: while and after updateCell recalculates, every record reachable from
\* the store that was current before the edit has the raw text, formula and
\* computed value it had before the edit.
C18_SnapshotKept ==
  pc = "recalc" =>
    PrevSeen(cells, newCells, CellKey(lastEdit.row, lastEdit.col)) = cells

\* ------------------------------------------------------------------------
\* Passes of an acyclic store
\* ------------------------------------------------------------------------
\* the number of formula cells of m
FormulaCount(m) == Cardinality({ k \in DOMAIN m : Truthy(m[k].data.formula) })

\* C19: for a store whose references are acyclic (no cell references itself,
\* directly or through others) the loop stops after at most F + 1 passes, F
\* the number of formula cells: after a pass that changed a value, so that
\* one more pass follows, at most F passes have run.
C19_PassesBounded ==
  (pc = "recalc" /\ Acyclic(newCells)) => passes <= FormulaCount(newCells)

====
